---------------------------- MODULE Spec2Model ----------------------------
(***************************************************************************)
(* couchdb-setup.ts: settings are extracted from the curl commands of a    *)
(* Bash script (parseScript) and merged into an INI file (updateConfig,    *)
(* finalizeSection).  Text is modelled as sequences of one-character       *)
(* strings; the literal lexemes of the script regex ("curl", the _config   *)
(* URL prefix, "-d", ...) are single symbols of the script alphabet.       *)
(***************************************************************************)
EXTENDS Naturals, Sequences, FiniteSets

(* ------------------------------ bounds --------------------------------- *)
MaxFileLines == 3
MaxScriptLines == 2
MaxRuns == 2

(* --------------------------- character classes ------------------------- *)
\* \w of the regular expressions, restricted to the characters in use
WordChars == {"k", "j", "x", "v", "s", "0", "1", "_",
              "u", "n", "d", "e", "f", "i"}
\* \s of the regular expressions and the characters String.trim removes
SpaceChars == {" ", "\t", "\r"}
NL == "\n"

\* JavaScript's undefined, as a value no text is equal to
Undefined == <<"undefined">>

IsWord(c) == c \in WordChars
IsSpace(c) == c \in SpaceChars
\* [\w\-]
IsKeyChar(c) == IsWord(c) \/ c = "-"
\* [\w\-\/]
IsPathChar(c) == IsKeyChar(c) \/ c = "/"

(* ------------------------------ strings -------------------------------- *)
RECURSIVE TrimStart(_)
TrimStart(s) ==
  IF s # <<>> /\ IsSpace(Head(s)) THEN TrimStart(Tail(s)) ELSE s

RECURSIVE TrimEnd(_)
TrimEnd(s) ==
  IF s # <<>> /\ IsSpace(s[Len(s)]) THEN TrimEnd(SubSeq(s, 1, Len(s) - 1))
  ELSE s

\* String.prototype.trim
Trim(s) == TrimEnd(TrimStart(s))

\* String.prototype.split(sep) for a one-symbol separator: always at least
\* one piece, "" splits into [""]
RECURSIVE SplitFrom(_, _, _)
SplitFrom(s, sep, cur) ==
  IF s = <<>> THEN <<cur>>
  ELSE IF Head(s) = sep THEN <<cur>> \o SplitFrom(Tail(s), sep, <<>>)
  ELSE SplitFrom(Tail(s), sep, Append(cur, Head(s)))

Split(s, sep) == SplitFrom(s, sep, <<>>)

\* String.prototype.split(sep, limit): the first limit pieces, the rest of
\* the string is dropped
SplitLimit(s, sep, limit) ==
  LET all == Split(s, sep)
  IN  IF Len(all) <= limit THEN all ELSE SubSeq(all, 1, limit)

\* Array.prototype.join(sep)
RECURSIVE Join(_, _)
Join(lines, sep) ==
  IF lines = <<>> THEN <<>>
  ELSE IF Len(lines) = 1 THEN lines[1]
  ELSE lines[1] \o <<sep>> \o Join(Tail(lines), sep)

\* `${x}` of a template literal
ToStr(x) ==
  IF x = Undefined THEN <<"u", "n", "d", "e", "f", "i", "n", "e", "d">>
  ELSE x

\* `${key} = ${value}`
KeyValueLine(key, value) == ToStr(key) \o <<" ", "=", " ">> \o ToStr(value)

\* `[${section}]`
HeaderLine(section) == <<"[">> \o ToStr(section) \o <<"]">>

(* ---------------------------- parseScript ------------------------------ *)
\* the literal lexemes of the script regex, one symbol each
CurlTokens == {"curl", "CURL"}
ConfigPath == "/_node/nonode@nohost/_config/"
DataFlag == "-d"

\* end of the maximal run of symbols satisfying [\w\-\/] that starts at i
\* (i - 1 when the run is empty)
RECURSIVE PathRunEnd(_, _)
PathRunEnd(t, i) ==
  IF i <= Len(t) /\ IsPathChar(t[i]) THEN PathRunEnd(t, i + 1) ELSE i - 1

RECURSIVE SkipSpaces(_, _)
SkipSpaces(t, i) ==
  IF i <= Len(t) /\ IsSpace(t[i]) THEN SkipSpaces(t, i + 1) ELSE i

\* -d\s+\'\"  matched with -d at position d: the position after the opening
\* quotes, 0 when there is no match
PayloadOpen(t, d) ==
  IF d <= Len(t) /\ t[d] = DataFlag
  THEN LET q == SkipSpaces(t, d + 1)
       IN  IF q > d + 1 /\ q + 1 <= Len(t) /\ t[q] = "'" /\ t[q + 1] = "\""
           THEN q + 2 ELSE 0
  ELSE 0

\* positions c of a closing \"\' at or after position o
PayloadCloses(t, o) ==
  {c \in o..Len(t) : c + 1 <= Len(t) /\ t[c] = "\"" /\ t[c + 1] = "'"}

Min(S) == CHOOSE x \in S : \A y \in S : x <= y
Max(S) == CHOOSE x \in S : \A y \in S : x >= y

\* ([\w\-\/]+).*?-d\s+\'\"(.*?)\"\'.*$  matched right after the path prefix
\* at position p: the positions d of -d that complete the match
PayloadStarts(t, p) ==
  LET e == PathRunEnd(t, p + 1)
  IN  IF e < p + 1 THEN {}
      ELSE {d \in (e + 1)..Len(t) :
              PayloadOpen(t, d) # 0 /\ PayloadCloses(t, PayloadOpen(t, d)) # {}}

\* curl.*\/_node\/nonode@nohost\/_config\/ ... : the positions p of the
\* path prefix, after some curl, from which the rest of the regex matches
PathStarts(t) ==
  {p \in 1..Len(t) :
     /\ t[p] = ConfigPath
     /\ \E c \in 1..(p - 1) : t[c] \in CurlTokens
     /\ PayloadStarts(t, p) # {}}

\* trimmed.match(/curl.*\/_node\/nonode@nohost\/_config\/([\w\-\/]+).*?
\*               -d\s+\'\"(.*?)\"\'.*$/i): <<>> when there is no match, else
\* <<[fullKey, value]>>.  The greedy .* takes the last path prefix, the lazy
\* .*? the first -d, and the lazy (.*?) stops at the first closing quotes.
ScriptMatch(t) ==
  IF PathStarts(t) = {} THEN <<>>
  ELSE LET p == Max(PathStarts(t))
           e == PathRunEnd(t, p + 1)
           d == Min(PayloadStarts(t, p))
           o == PayloadOpen(t, d)
           c == Min(PayloadCloses(t, o))
       IN  <<[fullKey |-> SubSeq(t, p + 1, e), value |-> SubSeq(t, o, c - 1)]>>

\* const [section, key] = fullKey.split("/", 2); settings.push(...)
SettingOf(m) ==
  LET parts == SplitLimit(m.fullKey, "/", 2)
  IN  [section |-> parts[1],
       key |-> IF Len(parts) >= 2 THEN parts[2] ELSE Undefined,
       value |-> m.value]

\* the for loop of parseScript over the lines of the script
RECURSIVE ParseLines(_)
ParseLines(scriptLines) ==
  IF scriptLines = <<>> THEN <<>>
  ELSE LET m == ScriptMatch(Trim(Head(scriptLines)))
       IN  (IF m = <<>> THEN <<>> ELSE <<SettingOf(m[1])>>)
             \o ParseLines(Tail(scriptLines))

\* parseScript once the file is known to exist
ParseScriptText(text) == ParseLines(Split(text, NL))

(* ------------------------- updateConfig helpers ------------------------ *)
\* trimmed.startsWith("[") && trimmed.endsWith("]")
IsHeader(line) ==
  LET t == Trim(line)
  IN  t # <<>> /\ t[1] = "[" /\ t[Len(t)] = "]"

\* trimmed.slice(1, -1)
HeaderName(line) ==
  LET t == Trim(line)
  IN  SubSeq(t, 2, Len(t) - 1)

\* sectionSettings: the Record, as the list of its entries in insertion order.
\* The section names of the model are neither integer-like (which for...in
\* would list first) nor names of Object.prototype (for which the lookup
\* would find an inherited property).
HasSection(rec, section) == \E i \in 1..Len(rec) : rec[i].section = section

\* sectionSettings[section]; the empty list stands for a missing entry, which
\* finalizeSection treats alike (!settings || settings.length === 0)
SettingsFor(rec, section) ==
  IF HasSection(rec, section)
  THEN rec[CHOOSE i \in 1..Len(rec) : rec[i].section = section].settings
  ELSE <<>>

\* sectionSettings[section].push(setting), creating the entry when missing
PushSetting(rec, st) ==
  IF HasSection(rec, st.section)
  THEN [i \in 1..Len(rec) |->
          IF rec[i].section = st.section
          THEN [rec[i] EXCEPT !.settings = Append(@, st)] ELSE rec[i]]
  ELSE Append(rec, [section |-> st.section, settings |-> <<st>>])

\* the grouping loop of updateConfig
RECURSIVE GroupSettings(_, _)
GroupSettings(settings, rec) ==
  IF settings = <<>> THEN rec
  ELSE GroupSettings(Tail(settings), PushSetting(rec, Head(settings)))

\* delete sectionSettings[section]
RECURSIVE DeleteSection(_, _)
DeleteSection(rec, section) ==
  IF rec = <<>> THEN <<>>
  ELSE IF Head(rec).section = section THEN DeleteSection(Tail(rec), section)
  ELSE <<Head(rec)>> \o DeleteSection(Tail(rec), section)

(* --------------------------- finalizeSection --------------------------- *)
\* Map.prototype.has, on the Map as the list of its values in insertion order
MapHas(map, key) == \E i \in 1..Len(map) : map[i].key = key

\* Map.prototype.get
MapGet(map, key) == map[CHOOSE i \in 1..Len(map) : map[i].key = key]

\* Map.prototype.set: a key already present keeps its position
MapSet(map, st) ==
  IF MapHas(map, st.key)
  THEN [i \in 1..Len(map) |-> IF map[i].key = st.key THEN st ELSE map[i]]
  ELSE Append(map, st)

\* a delete that leaves the entry in the Map
MapDelete_Keep(map, key) == map

\* Map.prototype.delete
RECURSIVE MapDelete(_, _)
MapDelete(map, key) ==
  IF map = <<>> THEN <<>>
  ELSE IF Head(map).key = key THEN Tail(map)
  ELSE <<Head(map)>> \o MapDelete(Tail(map), key)

\* new Map(settings.map((s) => [s.key, s]))
RECURSIVE NewMap(_, _)
NewMap(settings, map) ==
  IF settings = <<>> THEN map
  ELSE NewMap(Tail(settings), MapSet(map, Head(settings)))

RECURSIVE KeyRunEnd(_, _)
KeyRunEnd(t, i) ==
  IF i <= Len(t) /\ IsKeyChar(t[i]) THEN KeyRunEnd(t, i + 1) ELSE i - 1

RECURSIVE WordRunEnd(_, _)
WordRunEnd(t, i) ==
  IF i <= Len(t) /\ IsWord(t[i]) THEN WordRunEnd(t, i + 1) ELSE i - 1

\* \s*(\w*)[\s\n] matched from position i: some white space has to follow
\* the (possibly empty) value
ValueTail(t, i) ==
  \/ i <= Len(t) /\ IsSpace(t[i])
  \/ LET w == WordRunEnd(t, i)
     IN  w >= i /\ w + 1 <= Len(t) /\ IsSpace(t[w + 1])

\* ([\w\-]+)\s*=\s*(\w*)[\s\n] matched with the key starting at position q:
\* the end of the key, 0 when there is no match
KeyAt(t, q) ==
  LET e == KeyRunEnd(t, q)
      a == SkipSpaces(t, e + 1)
  IN  IF e >= q /\ a <= Len(t) /\ t[a] = "=" /\ ValueTail(t, a + 1)
      THEN e ELSE 0

\* \;? then the key: the position the key starts at when the regex matches
\* from position p, 0 when it does not
KeyStart(t, p) ==
  IF t[p] = ";" /\ KeyAt(t, p + 1) # 0 THEN p + 1
  ELSE IF KeyAt(t, p) # 0 THEN p
  ELSE 0

\* trimmed.match(/\;?([\w\-]+)\s*=\s*(\w*)[\s\n]/): <<>> when there is no
\* match, else <<key>> of the leftmost match
LineMatch(t) ==
  LET starts == {p \in 1..Len(t) : KeyStart(t, p) # 0}
  IN  IF starts = {} THEN <<>>
      ELSE LET q == KeyStart(t, Min(starts))
           IN  <<SubSeq(t, q, KeyAt(t, q))>>

\* the for loop of finalizeSection over the lines of the section;
\* the result is <<updatedLines, remainingSettings>>
RECURSIVE ProcessSectionLines(_, _, _)
ProcessSectionLines(sectionLines, updatedLines, remaining) ==
  IF sectionLines = <<>> THEN <<updatedLines, remaining>>
  ELSE LET line == Head(sectionLines)
           m == LineMatch(Trim(line))
       IN  IF m # <<>> /\ MapHas(remaining, m[1])
           THEN ProcessSectionLines(
                  Tail(sectionLines),
                  Append(updatedLines,
                         KeyValueLine(m[1], MapGet(remaining, m[1]).value)),
                  MapDelete(remaining, m[1]))
           ELSE ProcessSectionLines(Tail(sectionLines),
                                    Append(updatedLines, line), remaining)

\* `${key} = ${value}` for every setting of a list, in order
RECURSIVE SettingLines(_)
SettingLines(settings) ==
  IF settings = <<>> THEN <<>>
  ELSE <<KeyValueLine(Head(settings).key, Head(settings).value)>>
         \o SettingLines(Tail(settings))

\* a finalizeSection that forgets the lines of a section without settings
FinalizeSection_DropUntouched(section, sectionLines, updatedLines, settings) ==
  IF settings = <<>> THEN updatedLines
  ELSE LET r == ProcessSectionLines(sectionLines, updatedLines,
                                    NewMap(settings, <<>>))
       IN  r[1] \o SettingLines(r[2])

\* a finalizeSection that appends every desired key, matched or not
FinalizeSection_AppendAll(section, sectionLines, updatedLines, settings) ==
  IF settings = <<>> THEN updatedLines \o sectionLines
  ELSE LET r == ProcessSectionLines(sectionLines, updatedLines,
                                    NewMap(settings, <<>>))
       IN  r[1] \o SettingLines(NewMap(settings, <<>>))

\* finalizeSection(section, sectionLines, updatedLines, settings): the new
\* updatedLines
FinalizeSection(section, sectionLines, updatedLines, settings) ==
  IF settings = <<>> THEN updatedLines \o sectionLines
  ELSE LET r == ProcessSectionLines(sectionLines, updatedLines,
                                    NewMap(settings, <<>>))
       IN  r[1] \o SettingLines(r[2])

\* the loop of updateConfig over the sections left in sectionSettings
RECURSIVE NewSectionLines(_)
NewSectionLines(rec) ==
  IF rec = <<>> THEN <<>>
  ELSE (IF Len(Head(rec).settings) > 0
        THEN <<HeaderLine(Head(rec).section)>>
               \o SettingLines(Head(rec).settings)
        ELSE <<>>)
         \o NewSectionLines(Tail(rec))

(* ------------------------------- inputs -------------------------------- *)
\* curl -X PUT "${hostname}/_node/nonode@nohost/_config/<path>" -d '"<value>"'
CurlPut(path, value) ==
  <<"curl", " ", "-X", " ", "PUT", " ", "\"", "${hostname}", ConfigPath>>
    \o path \o <<"\"", " ", DataFlag, " ", "'", "\"">> \o value \o <<"\"", "'">>

\* the lines a script is made of: a setting with an empty value, the same
\* section and key followed by a second slash, a second key of that section,
\* and an empty section name
ScriptLineSet ==
  { CurlPut(<<"s", "/", "k">>, <<>>),
    CurlPut(<<"s", "/", "k", "/", "x">>, <<"1">>),
    CurlPut(<<"s", "/", "j">>, <<"1">>),
    CurlPut(<<"/", "k">>, <<"v">>) }

\* the lines a configuration file is made of: two headers, a commented
\* assignment, and an assignment with no white space but at its end
FileLineSet ==
  { <<"[", "s", "]">>,
    <<"[", "]">>,
    <<";", "k", " ", "=", " ", "0">>,
    <<"k", "=", "0", " ">> }

\* the sequences of 1..n lines over a set of lines
LineLists(lineSet, n) == UNION {[1..k -> lineSet] : k \in 1..n}

\* the scripts: every line ends with a newline, so that the last piece of
\* split("\n") is an empty line
ScriptTexts == {Join(ls, NL) \o <<NL>> : ls \in LineLists(ScriptLineSet, MaxScriptLines)}

\* the configuration files
ConfigTexts == {Join(ls, NL) : ls \in LineLists(FileLineSet, MaxFileLines)}

Missing == [exists |-> FALSE, text |-> <<>>]
Existing(text) == [exists |-> TRUE, text |-> text]

(* ------------------------------- messages ------------------------------ *)
MsgParsing == "Parsing settings from the Bash script..."
MsgUpdating == "Updating CouchDB configuration..."
MsgComplete == "Configuration update complete."
ErrScript == "Script file not found: couchdb-init.sh"
ErrConfig == "Configuration file not found: /opt/couchdb/etc/local.ini"
\* `Error: ${message}`
ErrorLine(message) == <<"Error: ", message>>

(* -------------------------------- state -------------------------------- *)
VARIABLES
  scriptFile,       \* SCRIPT_FILE on disk
  configFile,       \* CONFIG_FILE on disk
  run,              \* number of the current execution of the program
  pc,               \* position of the execution
  settings,         \* const settings of the top level
  fileLines,        \* updateConfig: lines read from the file
  updatedLines,     \* updateConfig: accumulator
  sectionSettings,  \* updateConfig: settings by section, still to apply
  currentSection,   \* updateConfig
  sectionLines,     \* updateConfig
  lineNo,           \* updateConfig: index of the for loop over fileLines
  error,            \* message of the Error thrown, <<>> when none
  stdout,           \* lines written by console.log
  stderr,           \* lines written by console.error
  calls             \* console and file system calls of this run, in order

vars == <<scriptFile, configFile, run, pc, settings, fileLines, updatedLines,
          sectionSettings, currentSection, sectionLines, lineNo, error,
          stdout, stderr, calls>>

disk == <<scriptFile, configFile>>
mergeVars == <<fileLines, updatedLines, sectionSettings, currentSection,
               sectionLines, lineNo>>
console == <<stdout, stderr>>

Init ==
  /\ scriptFile \in {Missing}
       \cup {Existing(t) : t \in ScriptTexts}
  /\ configFile \in {Missing}
       \cup {Existing(t) : t \in ConfigTexts}
  /\ run = 1
  /\ pc = "start"
  /\ settings = <<>>
  /\ fileLines = <<>>
  /\ updatedLines = <<>>
  /\ sectionSettings = <<>>
  /\ currentSection = <<>>
  /\ sectionLines = <<>>
  /\ lineNo = 1
  /\ error = <<>>
  /\ stdout = <<>>
  /\ stderr = <<>>
  /\ calls = <<>>

(* ------------------------------- top level ----------------------------- *)
\* console.log("Parsing settings from the Bash script...")
LogParsing ==
  /\ pc = "start"
  /\ stdout' = Append(stdout, MsgParsing)
  /\ calls' = Append(calls, "log parsing")
  /\ pc' = "parse"
  /\ UNCHANGED <<disk, run, settings, mergeVars, error, stderr>>

\* a parseScript without the existence check: a missing script reads as an
\* empty one
ParseScript_NoExistsCheck ==
  /\ pc = "parse"
  /\ settings' = IF scriptFile.exists THEN ParseScriptText(scriptFile.text)
                 ELSE <<>>
  /\ calls' = Append(calls, "read script")
  /\ pc' = "logUpdating"
  /\ UNCHANGED <<disk, run, mergeVars, error, console>>

\* const settings = parseScript(SCRIPT_FILE)
ParseScript ==
  /\ pc = "parse"
  /\ IF ~scriptFile.exists
     THEN /\ error' = <<ErrScript>>
          /\ pc' = "catch"
          /\ UNCHANGED <<settings, calls>>
     ELSE /\ settings' = ParseScriptText(scriptFile.text)
          /\ calls' = Append(calls, "read script")
          /\ pc' = "logUpdating"
          /\ UNCHANGED error
  /\ UNCHANGED <<disk, run, mergeVars, console>>

\* console.log("Updating CouchDB configuration...")
LogUpdating ==
  /\ pc = "logUpdating"
  /\ stdout' = Append(stdout, MsgUpdating)
  /\ calls' = Append(calls, "log updating")
  /\ pc' = "update"
  /\ UNCHANGED <<disk, run, settings, mergeVars, error, stderr>>

(* ------------------------------ updateConfig --------------------------- *)
\* the existence check, the read and the grouping of the settings
UpdateConfigOpen ==
  /\ pc = "update"
  /\ IF ~configFile.exists
     THEN /\ error' = <<ErrConfig>>
          /\ pc' = "catch"
          /\ UNCHANGED <<mergeVars, calls>>
     ELSE /\ fileLines' = Split(configFile.text, NL)
          /\ updatedLines' = <<>>
          /\ sectionSettings' = GroupSettings(settings, <<>>)
          /\ currentSection' = <<>>
          /\ sectionLines' = <<>>
          /\ lineNo' = 1
          /\ calls' = Append(calls, "read config")
          /\ pc' = "lines"
          /\ UNCHANGED error
  /\ UNCHANGED <<disk, run, settings, console>>

\* one iteration of the loop over fileLines; "" is the falsy section name
UpdateConfigLine ==
  /\ pc = "lines"
  /\ lineNo <= Len(fileLines)
  /\ LET line == fileLines[lineNo]
     IN  IF IsHeader(line)
         THEN /\ IF currentSection # <<>>
                 THEN /\ updatedLines' =
                           Append(FinalizeSection(
                                    currentSection, sectionLines, updatedLines,
                                    SettingsFor(sectionSettings, currentSection)),
                                  line)
                      /\ sectionSettings' =
                           DeleteSection(sectionSettings, currentSection)
                 ELSE /\ updatedLines' = Append(updatedLines, line)
                      /\ UNCHANGED sectionSettings
              /\ currentSection' = HeaderName(line)
              /\ sectionLines' = <<>>
         ELSE IF currentSection # <<>>
         THEN /\ sectionLines' = Append(sectionLines, line)
              /\ UNCHANGED <<updatedLines, sectionSettings, currentSection>>
         ELSE /\ updatedLines' = Append(updatedLines, line)
              /\ UNCHANGED <<sectionLines, sectionSettings, currentSection>>
  /\ lineNo' = lineNo + 1
  /\ UNCHANGED <<disk, run, pc, settings, fileLines, error, console, calls>>

\* after the loop: finalize the last section if present
UpdateConfigLast ==
  /\ pc = "lines"
  /\ lineNo > Len(fileLines)
  /\ IF currentSection # <<>>
     THEN /\ updatedLines' =
               FinalizeSection(currentSection, sectionLines, updatedLines,
                               SettingsFor(sectionSettings, currentSection))
          /\ sectionSettings' = DeleteSection(sectionSettings, currentSection)
     ELSE UNCHANGED <<updatedLines, sectionSettings>>
  /\ pc' = "newSections"
  /\ UNCHANGED <<disk, run, settings, fileLines, currentSection, sectionLines,
                 lineNo, error, console, calls>>

\* add the sections of the script that were not present in the file
UpdateConfigNewSections ==
  /\ pc = "newSections"
  /\ updatedLines' = updatedLines \o NewSectionLines(sectionSettings)
  /\ pc' = "write"
  /\ UNCHANGED <<disk, run, settings, fileLines, sectionSettings,
                 currentSection, sectionLines, lineNo, error, console, calls>>

\* fs.writeFileSync(filePath, updatedLines.join("\n"))
UpdateConfigWrite ==
  /\ pc = "write"
  /\ configFile' = Existing(Join(updatedLines, NL))
  /\ calls' = Append(calls, "write config")
  /\ pc' = "logComplete"
  /\ UNCHANGED <<scriptFile, run, settings, mergeVars, error, console>>

(* ------------------------------- top level ----------------------------- *)
\* console.log("Configuration update complete.")
LogComplete ==
  /\ pc = "logComplete"
  /\ stdout' = Append(stdout, MsgComplete)
  /\ calls' = Append(calls, "log complete")
  /\ pc' = "done"
  /\ UNCHANGED <<disk, run, settings, mergeVars, error, stderr>>

\* a catch block after which the completion line is still printed
CatchError_ThenComplete ==
  /\ pc = "catch"
  /\ stderr' = Append(stderr, ErrorLine(error[1]))
  /\ stdout' = Append(stdout, MsgComplete)
  /\ calls' = calls \o <<"log error", "log complete">>
  /\ pc' = "done"
  /\ UNCHANGED <<disk, run, settings, mergeVars, error>>

\* catch (error) { console.error(`Error: ${error.message}`) }
CatchError ==
  /\ pc = "catch"
  /\ stderr' = Append(stderr, ErrorLine(error[1]))
  /\ calls' = Append(calls, "log error")
  /\ pc' = "done"
  /\ UNCHANGED <<disk, run, settings, mergeVars, error, stdout>>

\* the program is executed again on the files the last run left
Rerun ==
  /\ pc = "done"
  /\ run < MaxRuns
  /\ run' = run + 1
  /\ pc' = "start"
  /\ settings' = <<>>
  /\ fileLines' = <<>>
  /\ updatedLines' = <<>>
  /\ sectionSettings' = <<>>
  /\ currentSection' = <<>>
  /\ sectionLines' = <<>>
  /\ lineNo' = 1
  /\ error' = <<>>
  /\ stdout' = <<>>
  /\ stderr' = <<>>
  /\ calls' = <<>>
  /\ UNCHANGED disk

Next ==
  \/ LogParsing
  \/ ParseScript
  \/ LogUpdating
  \/ UpdateConfigOpen
  \/ UpdateConfigLine
  \/ UpdateConfigLast
  \/ UpdateConfigNewSections
  \/ UpdateConfigWrite
  \/ LogComplete
  \/ CatchError
  \/ Rerun

Spec == Init /\ [][Next]_vars

(* ------------------------ vocabulary of the claims --------------------- *)
Range(f) == {f[i] : i \in 1..Len(f)}

IsPrefix(a, b) == Len(a) <= Len(b) /\ a = SubSeq(b, 1, Len(a))

\* the run has completed without an error
Completed == pc = "done" /\ error = <<>>

\* the lines of the configuration file as the run read them, and as the
\* file holds them now
Original == fileLines
Output == Split(configFile.text, NL)

(* ----------------------------------- C1 -------------------------------- *)
\* C1: running the merge again with the same settings on the file it wrote
\* leaves the file as it is: a completed run that started from the output of
\* an earlier run writes back exactly the lines it read.
C1_Idempotent == (run >= 2 /\ Completed) => Output = Original

(* ----------------------------------- C3 -------------------------------- *)
IsWrite(c) == c = "write config"
Writes(cs) == Len(SelectSeq(cs, IsWrite))

C3_State ==
  /\ ~scriptFile.exists =>
       /\ "read config" \notin Range(calls)
       /\ "write config" \notin Range(calls)
       /\ pc \in {"start", "parse", "catch", "done"}
  /\ ~configFile.exists => "write config" \notin Range(calls)
  /\ Writes(calls) <= 1

C3_Step ==
  (configFile' # configFile \/ Writes(calls') > Writes(calls)) =>
     /\ pc = "write"
     /\ scriptFile.exists /\ configFile.exists
     /\ Writes(calls) = 0
     /\ lineNo > Len(fileLines)
     /\ sectionSettings' = sectionSettings /\ updatedLines' = updatedLines
     /\ configFile' = Existing(Join(updatedLines, NL))

\* C3: a missing script means the configuration file is neither read nor
\* written and the merge never starts; a missing configuration file is never
\* written; the file changes only in the single write of a run, which comes
\* after the loop over the lines has ended and stores the complete
\* updatedLines.
C3_NoMutationOnFailure == []C3_State /\ [][C3_Step]_vars

C3_Witness ==
  /\ pc = "done"
  /\ ~scriptFile.exists
  /\ configFile.exists
  /\ stderr = <<ErrorLine(ErrScript)>>

(* ----------------------------------- C5 -------------------------------- *)
\* the regex matches of the lines of a script, in order
RECURSIVE ScriptMatches(_)
ScriptMatches(ls) ==
  IF ls = <<>> THEN <<>>
  ELSE ScriptMatch(Trim(Head(ls))) \o ScriptMatches(Tail(ls))

FirstSlash(path) == Min({i \in 1..Len(path) : path[i] = "/"})

\* C5: the Setting of a recognized line has as section the text before the
\* first slash of the captured path and as key everything after that slash,
\* later slashes included.
C5_KeyKeepsSlashes ==
  (scriptFile.exists /\ pc \notin {"start", "parse"}) =>
     LET ms == ScriptMatches(Split(scriptFile.text, NL))
     IN  /\ Len(settings) = Len(ms)
         /\ \A n \in 1..Len(ms) :
              "/" \in Range(ms[n].fullKey) =>
                 LET f == FirstSlash(ms[n].fullKey)
                 IN  /\ settings[n].section = SubSeq(ms[n].fullKey, 1, f - 1)
                     /\ settings[n].key =
                          SubSeq(ms[n].fullKey, f + 1, Len(ms[n].fullKey))

(* ----------------------------------- C8 -------------------------------- *)
SuccessCalls ==
  <<"log parsing", "read script", "log updating", "read config",
    "write config", "log complete">>

IsNoError(c) == c # "log error"

\* C8: the calls of a run are a prefix of: parsing line, script read,
\* updating line, file read, file write, completion line, possibly followed
\* by one error line, which is then the last call; a thrown error is always
\* taken by the catch block and the run then ends, with no completion
\* line; a finished run has printed either the three lines of
\* a success and no error, or exactly one "Error: <message>" line and no
\* completion line.
C8_RunOrder ==
  /\ IsPrefix(SelectSeq(calls, IsNoError), SuccessCalls)
  /\ IsPrefix(stdout, <<MsgParsing, MsgUpdating, MsgComplete>>)
  /\ \A n \in 1..Len(calls) : calls[n] = "log error" => n = Len(calls)
  /\ pc = "catch" => ENABLED CatchError
  /\ error # <<>> =>
       /\ pc \in {"catch", "done"}
       /\ MsgComplete \notin Range(stdout)
       /\ "log complete" \notin Range(calls)
  /\ pc = "done" =>
       \/ /\ error = <<>>
          /\ calls = SuccessCalls
          /\ stdout = <<MsgParsing, MsgUpdating, MsgComplete>>
          /\ stderr = <<>>
       \/ /\ error # <<>>
          /\ calls[Len(calls)] = "log error"
          /\ stderr = <<ErrorLine(error[1])>>

C8_Witness ==
  /\ pc = "done"
  /\ calls = <<"log parsing", "read script", "log updating", "log error">>
  /\ stderr = <<ErrorLine(ErrConfig)>>

(* ------------------ sections and blocks, for the claims ---------------- *)
Headers(lines) == {i \in 1..Len(lines) : IsHeader(lines[i])}

\* the headers of a file that name a section
NamedHeaders(lines, name) ==
  {h \in Headers(lines) : HeaderName(lines[h]) = name}

\* the last line of the block that the header at h opens
BlockEnd(lines, h) ==
  Min({g \in Headers(lines) : g > h} \cup {Len(lines) + 1}) - 1

\* the r-th smallest element of a set of numbers
Nth(S, r) == CHOOSE x \in S : Cardinality({y \in S : y <= x}) = r

\* the desired settings of a section, in list order
RECURSIVE Desired(_, _)
Desired(list, name) ==
  IF list = <<>> THEN <<>>
  ELSE (IF Head(list).section = name THEN <<Head(list)>> ELSE <<>>)
         \o Desired(Tail(list), name)

TargetSections == {settings[n].section : n \in 1..Len(settings)}

HasKey(list, key) == \E n \in 1..Len(list) : list[n].key = key

\* the value of the last entry of a list for a key
LastValue(list, key) ==
  list[Max({n \in 1..Len(list) : list[n].key = key})].value

\* the keys of a list, each once, in the order of their first occurrence
RECURSIVE DistinctKeys(_, _)
DistinctKeys(list, seen) ==
  IF list = <<>> THEN <<>>
  ELSE IF Head(list).key \in seen THEN DistinctKeys(Tail(list), seen)
  ELSE <<Head(list).key>>
         \o DistinctKeys(Tail(list), seen \cup {Head(list).key})

\* the key of a line, as the pattern of finalizeSection recognizes it
KeyOf(line) == LineMatch(Trim(line))

\* line i lies in the block of the header at h, which is the first header
\* of its name, and is the first line of that block with its key, and the
\* key is a desired key of the section
FirstWithDesiredKey(lines, h, i) ==
  /\ h \in Headers(lines)
  /\ h < i /\ i <= BlockEnd(lines, h)
  /\ NamedHeaders(lines, HeaderName(lines[h])) \cap 1..(h - 1) = {}
  /\ KeyOf(lines[i]) # <<>>
  /\ HasKey(Desired(settings, HeaderName(lines[h])), KeyOf(lines[i])[1])
  /\ \A j \in (h + 1)..(i - 1) : KeyOf(lines[j]) # KeyOf(lines[i])

\* 'key = desiredValue' for the key of line i in the block of header h
Rewritten(lines, h, i) ==
  KeyValueLine(KeyOf(lines[i])[1],
               LastValue(Desired(settings, HeaderName(lines[h])),
                         KeyOf(lines[i])[1]))

(* ----------------------------------- C2 -------------------------------- *)
\* output line j may stand for original line i: it is that line, or the
\* line is the first one with a desired key in the first block of its
\* section and j is its rewriting
StandsFor(orig, out, i, j) ==
  \/ out[j] = orig[i]
  \/ \E h \in Headers(orig) :
       FirstWithDesiredKey(orig, h, i) /\ out[j] = Rewritten(orig, h, i)

\* the original lines from i on can be mapped, in order, into the output
\* lines from j on
RECURSIVE Embeds(_, _, _, _)
Embeds(orig, out, i, j) ==
  IF i > Len(orig) THEN TRUE
  ELSE IF j > Len(out) THEN FALSE
  ELSE IF StandsFor(orig, out, i, j) THEN Embeds(orig, out, i + 1, j + 1)
  ELSE Embeds(orig, out, i, j + 1)

\* C2: the lines of the original file all appear in the output, in their
\* original order, each one unchanged unless it is the first line carrying a
\* desired key in the first block of a targeted section, which may appear as
\* 'key = value' instead; the merge drops no line.
C2_Preservation == Completed => Embeds(Original, Output, 1, 1)

C2_Case(orig, out) ==
  /\ Len(out) > Len(orig)
  /\ \E h \in Headers(orig) :
       /\ \E i \in 1..Len(orig) :
            FirstWithDesiredKey(orig, h, i) /\ orig[i] \notin Range(out)
       /\ \E i \in (h + 1)..BlockEnd(orig, h) :
            ~FirstWithDesiredKey(orig, h, i)

C2_Witness == Completed /\ C2_Case(Original, Output)

(* ----------------------------------- C4 -------------------------------- *)
\* C4: when a (section, key) occurs several times in the settings list, no
\* line that the merge added to the file carries the value of an earlier
\* entry that differs from the value of the last entry.
EarlierValueAbsent(orig, out) ==
  \A a \in 1..Len(settings) : \A b \in (a + 1)..Len(settings) :
    (settings[a].section = settings[b].section
       /\ settings[a].key = settings[b].key
       /\ settings[a].value #
            LastValue(Desired(settings, settings[a].section), settings[a].key))
    => \A j \in 1..Len(out) :
         out[j] = KeyValueLine(settings[a].key, settings[a].value)
           => out[j] \in Range(orig)

C4_LastOccurrenceWins == Completed => EarlierValueAbsent(Original, Output)

(* ----------------------------------- C6 -------------------------------- *)
NoDuplicateKeys ==
  \A a \in 1..Len(settings) : \A b \in (a + 1)..Len(settings) :
    ~(settings[a].section = settings[b].section
        /\ settings[a].key = settings[b].key)

\* C6 as claimed, for settings lists that name no (section, key) twice and
\* no empty section: after the merge every line of a block whose section has
\* desired settings, and whose key is a desired key, reads
\* 'key = desiredValue'.
EveryMatchingLineRewritten(out) ==
  \A h \in Headers(out) : \A j \in (h + 1)..BlockEnd(out, h) :
    LET d == Desired(settings, HeaderName(out[h]))
    IN  (KeyOf(out[j]) # <<>> /\ HasKey(d, KeyOf(out[j])[1]))
          => out[j] = KeyValueLine(KeyOf(out[j])[1],
                                   LastValue(d, KeyOf(out[j])[1]))

C6_EveryMatchingLineRewritten ==
  (Completed /\ NoDuplicateKeys /\ <<>> \notin TargetSections) =>
    EveryMatchingLineRewritten(Output)

\* the headers that open the first block of a section with a non-empty name
\* and desired settings: the blocks finalizeSection is given settings for
TargetedBlocks(lines) ==
  {h \in Headers(lines) :
     /\ HeaderName(lines[h]) # <<>>
     /\ Desired(settings, HeaderName(lines[h])) # <<>>
     /\ NamedHeaders(lines, HeaderName(lines[h])) \cap 1..(h - 1) = {}}

\* the header of the output that stands for the header h of a targeted block
OutHeader(orig, out, h) == Min(NamedHeaders(out, HeaderName(orig[h])))

FirstMatchingLineRewritten(orig, out) ==
  \A h \in TargetedBlocks(orig) :
    /\ NamedHeaders(out, HeaderName(orig[h])) # {}
    /\ \A i \in (h + 1)..BlockEnd(orig, h) :
         /\ OutHeader(orig, out, h) + (i - h) <= Len(out)
         /\ out[OutHeader(orig, out, h) + (i - h)] =
              IF FirstWithDesiredKey(orig, h, i) THEN Rewritten(orig, h, i)
              ELSE orig[i]

\* C6, amended: in the first block of every section with a non-empty name
\* and desired settings, the first line (commented or not) whose key is a
\* desired key is replaced by 'key = value' with the last desired value of
\* that key; every other line of the block, later lines with the same key
\* included, is left as it was.
C6_FirstMatchingLineRewritten ==
  Completed => FirstMatchingLineRewritten(Original, Output)

C6_Case(orig, out) ==
  \E h \in TargetedBlocks(orig) :
    \E i, j \in (h + 1)..BlockEnd(orig, h) :
      /\ i < j
      /\ FirstWithDesiredKey(orig, h, i)
      /\ KeyOf(orig[j]) = KeyOf(orig[i])
      /\ out[OutHeader(orig, out, h) + (i - h)] # orig[i]
      /\ out[OutHeader(orig, out, h) + (j - h)] = orig[j]

C6_Witness == Completed /\ C6_Case(Original, Output)

(* ----------------------------------- C7 -------------------------------- *)
\* the block that is expected at the end of the file for a new section
NewBlock(name) ==
  <<HeaderLine(name)>> \o SettingLines(Desired(settings, name))

\* C7: a section with desired settings whose header does not occur in the
\* original file has its block, the header and one line per desired setting
\* in list order, in the output after all the original lines; a section
\* whose header does occur has as many headers in the output as before.
NewSectionsOnly(orig, out) ==
  \A name \in TargetSections :
    IF NamedHeaders(orig, name) = {}
    THEN \E p \in 1..Len(out) :
           /\ p + Len(NewBlock(name)) - 1 <= Len(out)
           /\ SubSeq(out, p, p + Len(NewBlock(name)) - 1) = NewBlock(name)
           /\ Embeds(orig, SubSeq(out, 1, p - 1), 1, 1)
    ELSE Cardinality(NamedHeaders(out, name)) =
           Cardinality(NamedHeaders(orig, name))

C7_NewSectionCreation == Completed => NewSectionsOnly(Original, Output)

(* ----------------------------------- C9 -------------------------------- *)
\* the keys of a list that no line of the block of header h carries
RECURSIVE Unmatched(_, _, _)
Unmatched(keys, lines, h) ==
  IF keys = <<>> THEN <<>>
  ELSE (IF \E i \in (h + 1)..BlockEnd(lines, h) : KeyOf(lines[i]) = <<Head(keys)>>
        THEN <<>> ELSE <<Head(keys)>>)
         \o Unmatched(Tail(keys), lines, h)

\* the lines expected after the block of header h: one per desired key that
\* no line of the block carries, in the order in which the keys first occur
\* in the desired list, each with the last value desired for it
AppendedTo(orig, h) ==
  LET d == Desired(settings, HeaderName(orig[h]))
      ks == Unmatched(DistinctKeys(d, {}), orig, h)
  IN  [n \in 1..Len(ks) |-> KeyValueLine(ks[n], LastValue(d, ks[n]))]

\* where the block of header h ends in the output, before any appended line
OutBlockEnd(orig, out, h) == OutHeader(orig, out, h) + (BlockEnd(orig, h) - h)

AbsentKeysAppended(orig, out) ==
  \A h \in TargetedBlocks(orig) :
    LET app == AppendedTo(orig, h)
        end == OutBlockEnd(orig, out, h)
    IN  /\ NamedHeaders(out, HeaderName(orig[h])) # {}
        /\ end + Len(app) <= Len(out)
        /\ SubSeq(out, end + 1, end + Len(app)) = app
        /\ IF BlockEnd(orig, h) < Len(orig)
           THEN /\ end + Len(app) + 1 <= Len(out)
                /\ out[end + Len(app) + 1] = orig[BlockEnd(orig, h) + 1]
           ELSE end + Len(app) + 1 <= Len(out)
                  => IsHeader(out[end + Len(app) + 1])

\* C9: the block of a section finalized with desired settings is followed in
\* the output by exactly one 'key = value' line for each desired key that no
\* line of the block carries, in the insertion order of the desired list,
\* and then by the next header of the file (or by the end of the original
\* lines); keys that matched a line are not appended.
C9_AbsentKeysAppended == Completed => AbsentKeysAppended(Original, Output)

C9_Witness ==
  /\ Completed
  /\ \E h \in TargetedBlocks(Original) :
       /\ BlockEnd(Original, h) > h
       /\ BlockEnd(Original, h) < Len(Original)
       /\ Len(AppendedTo(Original, h)) >= 2
       /\ AppendedTo(Original, h)[1] # AppendedTo(Original, h)[2]

(* ----------------------------------- C10 ------------------------------- *)
\* C10: when a header occurs more than once in the original file and its
\* section has desired settings, the output has no further header of that
\* name, and every block of that name but the first is in the output line
\* for line.
LaterBlocksVerbatim(orig, out) ==
  \A name \in TargetSections :
    LET hs == NamedHeaders(orig, name)
        os == NamedHeaders(out, name)
    IN  Cardinality(hs) >= 2 =>
          /\ Cardinality(os) = Cardinality(hs)
          /\ \A r \in 2..Cardinality(hs) :
               \A i \in 0..(BlockEnd(orig, Nth(hs, r)) - Nth(hs, r)) :
                 /\ Nth(os, r) + i <= Len(out)
                 /\ out[Nth(os, r) + i] = orig[Nth(hs, r) + i]

C10_DuplicateHeaders == Completed => LaterBlocksVerbatim(Original, Output)

=============================================================================
